---- MODULE Spec2Model ----
(***************************************************************************)
(* Model of app/main.py: the /client endpoint with its circuit breaker,    *)
(* the /work endpoint with its admission check, and metrics_middleware     *)
(* with its in-flight gauge.                                               *)
(*                                                                         *)
(* Time is in seconds.  Probabilities (fail_rate, random.random()) are in  *)
(* hundredths, so the code's bound 1 is 100 here.                          *)
(***************************************************************************)
EXTENDS Integers, FiniteSets

\* ------------------------------------------------------------- bounds
NumCallers == 2
MaxTime == 20
MaxWork == 2
MaxTrips == 2

\* -------------------------------------------------- program constants
CB_FAIL_THRESHOLD == 5
CB_OPEN_SECONDS == 10
DEFAULT_QUEUE_LIMIT == 50

Callers == 1..NumCallers

\* The clock advances by half a cooldown or by a whole one, so a sampled
\* time falls before, exactly on and after a deadline.
TickSteps == {CB_OPEN_SECONDS \div 2, CB_OPEN_SECONDS}

\* Request parameters: each range's two ends, a value inside and the first
\* value outside on either side.
ClientMs == {0, 1, 50, 5000, 5001}
WorkMs == {0, 1, 50, 2000, 2001}
FailRates == {-1, 0, 50, 100, 101}
TimeoutMs == {0, 1, 200, 10000, 10001}
None == -1
DepthArgs == {None, 50, 51}
SampledDepths == {0, 100}
QueueLimits == {0, DEFAULT_QUEUE_LIMIT}
Draws == {0, 50, 99}

Outcomes == {"Success", "Timeout", "RemoteError", "TransportError"}

VARIABLES
    CB_OPEN,        \* global CB_OPEN
    CB_UNTIL,       \* global CB_UNTIL
    CB_FAIL_COUNT,  \* global CB_FAIL_COUNT
    CB_STATE,       \* gauge circuit_breaker_state
    CB_OPEN_UNTIL,  \* gauge circuit_breaker_open_until_epoch
    CB_LOCK,        \* holder of the asyncio.Lock, 0 when free
    QUEUE_DEPTH,    \* gauge work_queue_depth
    WORK_ITEMS,     \* counter work_items_total by outcome
    clock,          \* what time.time() returns
    pc,             \* where each caller's request stands
    now,            \* client: local now
    outcome,        \* client: how the remote call ended
    fail_rate,      \* work: the request's fail_rate while it runs
    queue_depth,    \* work: local queue_depth
    queue_limit,    \* work: the request's queue_limit
    spins,          \* work: calls of cpu_spin the request has completed
    draws,          \* work: random.random() draws the request has made
    result,         \* how the caller's last request ended
    remote,         \* remote calls issued by the caller's request
    recs,           \* outcomes the caller's request recorded into the breaker
    acqs,           \* acquisitions of CB_LOCK by the caller's request
    reclosed,       \* history: the caller's request closed the breaker at the
                    \* gate and no other request has written the breaker since
    streak,         \* history: failures recorded since the last recorded
                    \* success; stays at the threshold once it gets there
    trips,          \* history: times CB_OPEN went from False to True, up to
                    \* MaxTrips
    opened,         \* history: time.time() when CB_OPEN was last set to True
    peak,           \* history: the most /client requests that have been in
                    \* progress at one time
    publisher,      \* history: the caller whose request last set QUEUE_DEPTH,
                    \* 0 when none has
    INFLIGHT,       \* gauge http_inflight_requests
    mw              \* whether the caller's request is inside metrics_middleware

breakerVars == <<CB_OPEN, CB_UNTIL, CB_FAIL_COUNT, CB_STATE, CB_OPEN_UNTIL>>
clientLocals == <<now, outcome, remote, recs, acqs>>
workLocals == <<fail_rate, queue_depth, queue_limit, spins, draws>>
workVars == <<QUEUE_DEPTH, WORK_ITEMS, workLocals, publisher>>
history == <<reclosed, streak, trips, opened, peak>>
mwVars == <<INFLIGHT, mw>>
vars == <<breakerVars, CB_LOCK, QUEUE_DEPTH, WORK_ITEMS, clock, pc, result,
          clientLocals, workLocals, history, publisher, mwVars>>

\* The breaker's globals and its two gauges as one value.
Breaker ==
    [open |-> CB_OPEN, until |-> CB_UNTIL, count |-> CB_FAIL_COUNT,
     state |-> CB_STATE, deadline |-> CB_OPEN_UNTIL]

SetBreaker(b) ==
    /\ CB_OPEN' = b.open
    /\ CB_UNTIL' = b.until
    /\ CB_FAIL_COUNT' = b.count
    /\ CB_STATE' = b.state
    /\ CB_OPEN_UNTIL' = b.deadline

Init ==
    /\ CB_OPEN = FALSE
    /\ CB_UNTIL = 0
    /\ CB_FAIL_COUNT = 0
    /\ CB_STATE = 0
    /\ CB_OPEN_UNTIL = 0
    /\ CB_LOCK = 0
    /\ QUEUE_DEPTH = 0
    /\ WORK_ITEMS = [o \in {"shed", "error", "ok"} |-> 0]
    /\ clock = 0
    /\ pc = [p \in Callers |-> "idle"]
    /\ now = [p \in Callers |-> 0]
    /\ outcome = [p \in Callers |-> "none"]
    /\ fail_rate = [p \in Callers |-> 0]
    /\ queue_depth = [p \in Callers |-> 0]
    /\ queue_limit = [p \in Callers |-> 0]
    /\ spins = [p \in Callers |-> 0]
    /\ draws = [p \in Callers |-> 0]
    /\ result = [p \in Callers |-> "none"]
    /\ remote = [p \in Callers |-> 0]
    /\ recs = [p \in Callers |-> 0]
    /\ acqs = [p \in Callers |-> 0]
    /\ reclosed = [p \in Callers |-> FALSE]
    /\ streak = 0
    /\ trips = 0
    /\ opened = 0
    /\ peak = 0
    /\ publisher = 0
    /\ INFLIGHT = 0
    /\ mw = [p \in Callers |-> "out"]

\* ------------------------------------------------------------ /client

\* Faulty variant: the upper end of the ms range one too high.
ClientParamsValid_OffByOne(ms, fr, timeout_ms) ==
    /\ ~(ms < 1 \/ ms > 5001)
    /\ ~(fr < 0 \/ fr > 100)
    /\ ~(timeout_ms < 1 \/ timeout_ms > 10000)

ClientParamsValid(ms, fr, timeout_ms) ==
    /\ ~(ms < 1 \/ ms > 5000)
    /\ ~(fr < 0 \/ fr > 100)
    /\ ~(timeout_ms < 1 \/ timeout_ms > 10000)

\* Faulty variant: the gate rejects no call.
GateRejects_Never(b, t) == FALSE

\* Faulty variant: the comparison with the deadline turned round.
GateRejects_Flipped(b, t) == b.open /\ t > b.until

\* if CB_OPEN and now < CB_UNTIL
GateRejects(b, t) == b.open /\ t < b.until

\* Faulty variant: a rejected call clears the failure count.
GateRejectUpdate_ResetsCount(b) ==
    [b EXCEPT !.count = 0, !.state = 1, !.deadline = b.until]

GateRejectUpdate(b) == [b EXCEPT !.state = 1, !.deadline = b.until]

\* Faulty variant: the deadline itself still counts as inside the cooldown.
GateCloses_Strict(b, t) == b.open /\ t > b.until

\* if CB_OPEN and now >= CB_UNTIL
GateCloses(b, t) == b.open /\ t >= b.until

\* Faulty variant: the breaker closes and keeps its failure count.
GateCloseUpdate_KeepsCount(b) ==
    [b EXCEPT !.open = FALSE, !.state = 0, !.deadline = 0]

\* Faulty variant: the count and the gauges are reset and CB_OPEN is left set.
GateCloseUpdate_StaysOpen(b) ==
    [b EXCEPT !.count = 0, !.state = 0, !.deadline = 0]

GateCloseUpdate(b) ==
    [b EXCEPT !.open = FALSE, !.count = 0, !.state = 0, !.deadline = 0]

\* Faulty variant: a success closes the breaker.
SuccessUpdate_Closes(b) ==
    [b EXCEPT !.open = FALSE, !.count = 0, !.state = 0, !.deadline = 0]

\* Faulty variant: a success leaves the failure count alone.
SuccessUpdate_KeepsCount(b) == [b EXCEPT !.state = 0, !.deadline = 0]

SuccessUpdate(b) == [b EXCEPT !.count = 0, !.state = 0, !.deadline = 0]

\* Faulty variant: the threshold compared with > instead of >=.
TimeoutUpdate_OffByOne(b, t) ==
    LET c == b.count + 1
    IN  IF c > CB_FAIL_THRESHOLD
        THEN [b EXCEPT !.count = c, !.open = TRUE,
                       !.until = t + CB_OPEN_SECONDS,
                       !.state = 1, !.deadline = t + CB_OPEN_SECONDS]
        ELSE [b EXCEPT !.count = c]

TimeoutUpdate(b, t) ==
    LET c == b.count + 1
    IN  IF c >= CB_FAIL_THRESHOLD
        THEN [b EXCEPT !.count = c, !.open = TRUE,
                       !.until = t + CB_OPEN_SECONDS,
                       !.state = 1, !.deadline = t + CB_OPEN_SECONDS]
        ELSE [b EXCEPT !.count = c]

\* Faulty variant: an error status is not counted as a failure.
StatusErrorUpdate_NotCounted(b, t) == b

StatusErrorUpdate(b, t) ==
    LET c == b.count + 1
    IN  IF c >= CB_FAIL_THRESHOLD
        THEN [b EXCEPT !.count = c, !.open = TRUE,
                       !.until = t + CB_OPEN_SECONDS,
                       !.state = 1, !.deadline = t + CB_OPEN_SECONDS]
        ELSE [b EXCEPT !.count = c]

\* Faulty variant: a transport error is counted twice.
TransportUpdate_Double(b, t) ==
    LET c == b.count + 2
    IN  IF c >= CB_FAIL_THRESHOLD
        THEN [b EXCEPT !.count = c, !.open = TRUE,
                       !.until = t + CB_OPEN_SECONDS,
                       !.state = 1, !.deadline = t + CB_OPEN_SECONDS]
        ELSE [b EXCEPT !.count = c]

TransportUpdate(b, t) ==
    LET c == b.count + 1
    IN  IF c >= CB_FAIL_THRESHOLD
        THEN [b EXCEPT !.count = c, !.open = TRUE,
                       !.until = t + CB_OPEN_SECONDS,
                       !.state = 1, !.deadline = t + CB_OPEN_SECONDS]
        ELSE [b EXCEPT !.count = c]

\* Where a /client request is between its validation and its end.
ClientPcs ==
    {"gate", "gate_cs", "gate_reset", "await", "rec", "rec_cs", "rec_open",
     "rec_until"}

\* The number of /client requests in progress.
InProgress == Cardinality({q \in Callers : pc[q] \in ClientPcs})

\* A request ends: its locals die, its result is kept.
Finish(p, r) ==
    /\ pc' = [pc EXCEPT ![p] = "idle"]
    /\ now' = [now EXCEPT ![p] = 0]
    /\ outcome' = [outcome EXCEPT ![p] = "none"]
    /\ result' = [result EXCEPT ![p] = r]

\* client() from its validation to now = time.time(); valid is what the
\* three range checks found.
ClientEnter(p, valid) ==
    /\ pc[p] = "idle"
    /\ remote' = [remote EXCEPT ![p] = 0]
    /\ recs' = [recs EXCEPT ![p] = 0]
    /\ acqs' = [acqs EXCEPT ![p] = 0]
    /\ IF valid
       THEN /\ pc' = [pc EXCEPT ![p] = "gate"]
            /\ now' = [now EXCEPT ![p] = clock]
            /\ result' = [result EXCEPT ![p] = "none"]
            /\ peak' = IF InProgress + 1 > peak THEN InProgress + 1 ELSE peak
            /\ UNCHANGED outcome
       ELSE /\ Finish(p, "ValidationError")
            /\ UNCHANGED peak
    /\ reclosed' = [reclosed EXCEPT ![p] = FALSE]
    /\ UNCHANGED <<breakerVars, CB_LOCK, workVars, clock, streak, trips,
                   opened, mwVars>>

\* client(ms, fail_rate, timeout_ms)
ClientRequest(p, ms, fr, timeout_ms) ==
    ClientEnter(p, ClientParamsValid(ms, fr, timeout_ms))

\* What the validation finds over all the requests a caller may send.
ClientVerdicts ==
    {ClientParamsValid(ms, fr, timeout_ms) :
        ms \in ClientMs, fr \in FailRates, timeout_ms \in TimeoutMs}

\* A caller sends any request: the steps of ClientRequest over all the
\* parameters, one per verdict.
ClientStart(p) == \E valid \in ClientVerdicts : ClientEnter(p, valid)

\* Faulty variant: the gate's section is entered without waiting for the
\* lock.
GateAcquire_NoLock(p) ==
    /\ pc[p] = "gate"
    /\ CB_LOCK' = p
    /\ pc' = [pc EXCEPT ![p] = "gate_cs"]
    /\ acqs' = [acqs EXCEPT ![p] = acqs[p] + 1]
    /\ UNCHANGED <<breakerVars, workVars, clock, now, outcome, result,
                   remote, recs, history, mwVars>>

\* async with CB_LOCK (before the call): the lock is taken
GateAcquire(p) ==
    /\ pc[p] = "gate"
    /\ CB_LOCK = 0
    /\ CB_LOCK' = p
    /\ pc' = [pc EXCEPT ![p] = "gate_cs"]
    /\ acqs' = [acqs EXCEPT ![p] = acqs[p] + 1]
    /\ UNCHANGED <<breakerVars, workVars, clock, now, outcome, result,
                   remote, recs, history, mwVars>>

\* Faulty variant: one critical section spanning the remote call, the lock
\* kept when the gate lets the call through.
GateCheck_HoldsLock(p) ==
    /\ pc[p] = "gate_cs"
    /\ IF GateRejects(Breaker, now[p])
       THEN /\ SetBreaker(GateRejectUpdate(Breaker))
            /\ CB_LOCK' = 0
            /\ Finish(p, "BreakerOpen")
            /\ UNCHANGED <<remote, reclosed>>
       ELSE /\ IF GateCloses(Breaker, now[p])
               THEN /\ SetBreaker(GateCloseUpdate(Breaker))
                    /\ reclosed' = [q \in Callers |-> q = p]
               ELSE UNCHANGED <<breakerVars, reclosed>>
            /\ CB_LOCK' = p
            /\ pc' = [pc EXCEPT ![p] = "await"]
            /\ now' = [now EXCEPT ![p] = 0]
            /\ remote' = [remote EXCEPT ![p] = remote[p] + 1]
            /\ UNCHANGED <<outcome, result>>
    /\ UNCHANGED <<workVars, clock, recs, acqs, streak, trips, opened,
                   peak, mwVars>>

\* The gate's critical section, the lock's release and, when the gate lets
\* the call through, the request sent with client.get.  now is not read
\* again after the gate.
GateCheck(p) ==
    /\ pc[p] = "gate_cs"
    /\ CB_LOCK' = 0
    /\ IF GateRejects(Breaker, now[p])
       THEN /\ SetBreaker(GateRejectUpdate(Breaker))
            /\ Finish(p, "BreakerOpen")
            /\ UNCHANGED <<remote, reclosed>>
       ELSE /\ IF GateCloses(Breaker, now[p])
               THEN /\ SetBreaker(GateCloseUpdate(Breaker))
                    /\ reclosed' = [q \in Callers |-> q = p]
               ELSE UNCHANGED <<breakerVars, reclosed>>
            /\ pc' = [pc EXCEPT ![p] = "await"]
            /\ now' = [now EXCEPT ![p] = 0]
            /\ remote' = [remote EXCEPT ![p] = remote[p] + 1]
            /\ UNCHANGED <<outcome, result>>
    /\ UNCHANGED <<workVars, clock, recs, acqs, streak, trips, opened,
                   peak, mwVars>>

\* Faulty variant: a call that timed out is sent once more.
Response_Retry(p) ==
    /\ pc[p] = "await"
    /\ \E o \in Outcomes :
        IF o = "Timeout" /\ remote[p] < 2
        THEN /\ remote' = [remote EXCEPT ![p] = remote[p] + 1]
             /\ UNCHANGED <<pc, outcome>>
        ELSE /\ outcome' = [outcome EXCEPT ![p] = o]
             /\ pc' = [pc EXCEPT ![p] = "rec"]
             /\ UNCHANGED remote
    /\ UNCHANGED <<breakerVars, CB_LOCK, workVars, clock, now, result,
                   recs, acqs, history, mwVars>>

\* await client.get and r.raise_for_status(): the call ends one of four ways
Response(p) ==
    /\ pc[p] = "await"
    /\ \E o \in Outcomes : outcome' = [outcome EXCEPT ![p] = o]
    /\ pc' = [pc EXCEPT ![p] = "rec"]
    /\ UNCHANGED <<breakerVars, CB_LOCK, workVars, clock, now, result,
                   remote, recs, acqs, history, mwVars>>

\* async with CB_LOCK (after the call): the lock is taken
RecordAcquire(p) ==
    /\ pc[p] = "rec"
    /\ CB_LOCK = 0
    /\ CB_LOCK' = p
    /\ pc' = [pc EXCEPT ![p] = "rec_cs"]
    /\ acqs' = [acqs EXCEPT ![p] = acqs[p] + 1]
    /\ UNCHANGED <<breakerVars, workVars, clock, now, outcome, result,
                   remote, recs, history, mwVars>>

\* The critical section after the call, which leaves the breaker as b, the
\* lock's release and the request's end.
Record(p, kind, b) ==
    /\ pc[p] = "rec_cs"
    /\ outcome[p] = kind
    /\ SetBreaker(b)
    /\ CB_LOCK' = 0
    /\ recs' = [recs EXCEPT ![p] = recs[p] + 1]
    /\ Finish(p, kind)
    /\ reclosed' = [q \in Callers |-> q = p /\ reclosed[p]]
    /\ streak' = IF streak >= CB_FAIL_THRESHOLD THEN streak
                 ELSE IF kind = "Success" THEN 0 ELSE streak + 1
    /\ trips' = IF ~CB_OPEN /\ b.open /\ trips < MaxTrips
                THEN trips + 1 ELSE trips
    /\ opened' = IF kind # "Success" /\ b.count >= CB_FAIL_THRESHOLD
                 THEN clock ELSE opened
    /\ UNCHANGED <<workVars, clock, remote, acqs, peak, mwVars>>

RecordSuccess(p) == Record(p, "Success", SuccessUpdate(Breaker))

RecordTimeout(p) == Record(p, "Timeout", TimeoutUpdate(Breaker, clock))

RecordStatusError(p) ==
    Record(p, "RemoteError", StatusErrorUpdate(Breaker, clock))

RecordTransport(p) ==
    Record(p, "TransportError", TransportUpdate(Breaker, clock))

\* ------------------------------- /client, one assignment at a time
\* The critical sections again, with a step for each assignment to CB_OPEN,
\* CB_UNTIL and CB_FAIL_COUNT, so that the states between two assignments
\* of one section are states of the model.

\* Where a caller is while it is inside async with CB_LOCK.
InCS(p) ==
    pc[p] \in {"gate_cs", "gate_reset", "rec_cs", "rec_open", "rec_until"}

\* The gate from its first test to CB_OPEN = False: a rejected call ends
\* here, a call that finds the breaker closed goes on to client.get, a call
\* that finds the cooldown over has cleared CB_OPEN and not yet the count.
GateRead(p) ==
    /\ pc[p] = "gate_cs"
    /\ IF GateRejects(Breaker, now[p])
       THEN /\ SetBreaker(GateRejectUpdate(Breaker))
            /\ CB_LOCK' = 0
            /\ Finish(p, "BreakerOpen")
            /\ UNCHANGED remote
       ELSE IF GateCloses(Breaker, now[p])
       THEN /\ CB_OPEN' = FALSE
            /\ pc' = [pc EXCEPT ![p] = "gate_reset"]
            /\ UNCHANGED <<CB_UNTIL, CB_FAIL_COUNT, CB_STATE, CB_OPEN_UNTIL,
                           CB_LOCK, now, outcome, result, remote>>
       ELSE /\ CB_LOCK' = 0
            /\ pc' = [pc EXCEPT ![p] = "await"]
            /\ now' = [now EXCEPT ![p] = 0]
            /\ remote' = [remote EXCEPT ![p] = remote[p] + 1]
            /\ UNCHANGED <<breakerVars, outcome, result>>
    /\ UNCHANGED <<workVars, clock, recs, acqs, history, mwVars>>

\* CB_FAIL_COUNT = 0, the two gauges, the lock's release and client.get
GateReset(p) ==
    /\ pc[p] = "gate_reset"
    /\ CB_FAIL_COUNT' = 0
    /\ CB_STATE' = 0
    /\ CB_OPEN_UNTIL' = 0
    /\ CB_LOCK' = 0
    /\ pc' = [pc EXCEPT ![p] = "await"]
    /\ now' = [now EXCEPT ![p] = 0]
    /\ remote' = [remote EXCEPT ![p] = remote[p] + 1]
    /\ reclosed' = [q \in Callers |-> q = p]
    /\ UNCHANGED <<CB_OPEN, CB_UNTIL, workVars, clock, outcome, result, recs,
                   acqs, streak, trips, opened, peak, mwVars>>

\* CB_FAIL_COUNT += 1 and the test against the threshold, in any of the
\* three failure handlers; below the threshold the request ends here.
FailCount(p) ==
    /\ pc[p] = "rec_cs"
    /\ outcome[p] # "Success"
    /\ CB_FAIL_COUNT' = CB_FAIL_COUNT + 1
    /\ IF CB_FAIL_COUNT + 1 >= CB_FAIL_THRESHOLD
       THEN /\ pc' = [pc EXCEPT ![p] = "rec_open"]
            /\ UNCHANGED <<CB_LOCK, now, outcome, result, recs, reclosed,
                           streak>>
       ELSE /\ CB_LOCK' = 0
            /\ recs' = [recs EXCEPT ![p] = recs[p] + 1]
            /\ Finish(p, outcome[p])
            /\ reclosed' = [q \in Callers |-> q = p /\ reclosed[p]]
            /\ streak' = IF streak >= CB_FAIL_THRESHOLD THEN streak
                         ELSE streak + 1
    /\ UNCHANGED <<CB_OPEN, CB_UNTIL, CB_STATE, CB_OPEN_UNTIL, workVars,
                   clock, remote, acqs, trips, opened, peak, mwVars>>

\* CB_OPEN = True
FailOpen(p) ==
    /\ pc[p] = "rec_open"
    /\ CB_OPEN' = TRUE
    /\ pc' = [pc EXCEPT ![p] = "rec_until"]
    /\ trips' = IF ~CB_OPEN /\ trips < MaxTrips THEN trips + 1 ELSE trips
    /\ opened' = clock
    /\ UNCHANGED <<CB_UNTIL, CB_FAIL_COUNT, CB_STATE, CB_OPEN_UNTIL, CB_LOCK,
                   workVars, clock, now, outcome, result, remote, recs, acqs,
                   reclosed, streak, peak, mwVars>>

\* CB_UNTIL = time.time() + CB_OPEN_SECONDS, the two gauges, the lock's
\* release and the request's end
FailDeadline(p) ==
    /\ pc[p] = "rec_until"
    /\ CB_UNTIL' = clock + CB_OPEN_SECONDS
    /\ CB_STATE' = 1
    /\ CB_OPEN_UNTIL' = clock + CB_OPEN_SECONDS
    /\ CB_LOCK' = 0
    /\ recs' = [recs EXCEPT ![p] = recs[p] + 1]
    /\ Finish(p, outcome[p])
    /\ reclosed' = [q \in Callers |-> q = p /\ reclosed[p]]
    /\ streak' = IF streak >= CB_FAIL_THRESHOLD THEN streak ELSE streak + 1
    /\ UNCHANGED <<CB_OPEN, CB_FAIL_COUNT, workVars, clock, remote, acqs,
                   trips, opened, peak, mwVars>>

\* -------------------------------------------------------------- /work

WorkParamsValid(ms, fr) ==
    /\ ~(ms < 1 \/ ms > 2000)
    /\ ~(fr < 0 \/ fr > 100)

\* Faulty variant: a depth at the limit is shed as well.
Sheds_NonStrict(depth, limit) == depth >= limit

\* if queue_depth > queue_limit
Sheds(depth, limit) == depth > limit

\* if random.random() < fail_rate
DrawFails(r, fr) == r < fr

WorkPcs == {"decide", "spin", "draw"}

\* Requests to /work counted or still on their way to being counted.
WorkLoad ==
    WORK_ITEMS["shed"] + WORK_ITEMS["error"] + WORK_ITEMS["ok"]
        + Cardinality({q \in Callers : pc[q] \in WorkPcs})

Count(o) == WORK_ITEMS' = [WORK_ITEMS EXCEPT ![o] = WORK_ITEMS[o] + 1]

WorkFinish(p, r) ==
    /\ pc' = [pc EXCEPT ![p] = "idle"]
    /\ result' = [result EXCEPT ![p] = r]
    /\ fail_rate' = [fail_rate EXCEPT ![p] = 0]
    /\ queue_depth' = [queue_depth EXCEPT ![p] = 0]
    /\ queue_limit' = [queue_limit EXCEPT ![p] = 0]

\* if queue_depth is None: queue_depth = random.randint(0, 100); sampled is
\* the value drawn.
SampleDepth(depth, sampled) == IF depth = None THEN sampled ELSE depth

\* Faulty variant: the depth is published only for a request that will not be
\* shed.
WorkEnter_PublishesIfAdmitted(p, valid, fr, d, limit) ==
    /\ pc[p] = "idle"
    /\ spins' = [spins EXCEPT ![p] = 0]
    /\ draws' = [draws EXCEPT ![p] = 0]
    /\ IF valid
       THEN /\ WorkLoad < MaxWork
            /\ queue_depth' = [queue_depth EXCEPT ![p] = d]
            /\ QUEUE_DEPTH' = IF d > limit THEN QUEUE_DEPTH ELSE d
            /\ publisher' = p
            /\ queue_limit' = [queue_limit EXCEPT ![p] = limit]
            /\ fail_rate' = [fail_rate EXCEPT ![p] = fr]
            /\ pc' = [pc EXCEPT ![p] = "decide"]
            /\ result' = [result EXCEPT ![p] = "none"]
       ELSE /\ WorkFinish(p, "ValidationError")
            /\ UNCHANGED <<QUEUE_DEPTH, publisher>>
    /\ UNCHANGED <<breakerVars, CB_LOCK, WORK_ITEMS, clock, clientLocals,
                   history, mwVars>>

\* work() from its validation to QUEUE_DEPTH.set(queue_depth); valid is what
\* the two range checks found, d the depth given or sampled.
WorkEnter(p, valid, fr, d, limit) ==
    /\ pc[p] = "idle"
    /\ spins' = [spins EXCEPT ![p] = 0]
    /\ draws' = [draws EXCEPT ![p] = 0]
    /\ IF valid
       THEN /\ WorkLoad < MaxWork
            /\ queue_depth' = [queue_depth EXCEPT ![p] = d]
            /\ QUEUE_DEPTH' = d
            /\ publisher' = p
            /\ queue_limit' = [queue_limit EXCEPT ![p] = limit]
            /\ fail_rate' = [fail_rate EXCEPT ![p] = fr]
            /\ pc' = [pc EXCEPT ![p] = "decide"]
            /\ result' = [result EXCEPT ![p] = "none"]
       ELSE /\ WorkFinish(p, "ValidationError")
            /\ UNCHANGED <<QUEUE_DEPTH, publisher>>
    /\ UNCHANGED <<breakerVars, CB_LOCK, WORK_ITEMS, clock, clientLocals,
                   history, mwVars>>

\* What a request comes to: the validation's verdict and, for a valid
\* request, what the handler goes on to read.
WorkCase(ms, fr, depth, limit, sampled) ==
    IF WorkParamsValid(ms, fr)
    THEN <<TRUE, fr, SampleDepth(depth, sampled), limit>>
    ELSE <<FALSE, 0, 0, 0>>

\* work(ms, fail_rate, queue_depth, queue_limit)
WorkRequest(p, ms, fr, depth, limit, sampled) ==
    LET c == WorkCase(ms, fr, depth, limit, sampled)
    IN  WorkEnter(p, c[1], c[2], c[3], c[4])

WorkCases ==
    {WorkCase(ms, fr, depth, limit, sampled) :
        ms \in WorkMs, fr \in FailRates, depth \in DepthArgs,
        limit \in QueueLimits, sampled \in SampledDepths}

\* A caller sends any request: the steps of WorkRequest over all the
\* parameters, one per case.
WorkStart(p) == \E c \in WorkCases : WorkEnter(p, c[1], c[2], c[3], c[4])

\* Faulty variant: the shed is counted and the request goes on to the work
\* all the same.
WorkDecide_ShedGoesOn(p) ==
    /\ pc[p] = "decide"
    /\ IF Sheds(queue_depth[p], queue_limit[p])
       THEN Count("shed")
       ELSE UNCHANGED WORK_ITEMS
    /\ pc' = [pc EXCEPT ![p] = "spin"]
    /\ UNCHANGED <<result, fail_rate, queue_depth, queue_limit>>
    /\ UNCHANGED <<breakerVars, CB_LOCK, QUEUE_DEPTH, publisher, clock,
                   clientLocals, spins, draws, history, mwVars>>

\* the admission decision
WorkDecide(p) ==
    /\ pc[p] = "decide"
    /\ IF Sheds(queue_depth[p], queue_limit[p])
       THEN /\ Count("shed")
            /\ WorkFinish(p, "Shed")
       ELSE /\ pc' = [pc EXCEPT ![p] = "spin"]
            /\ UNCHANGED <<WORK_ITEMS, result, fail_rate, queue_depth,
                           queue_limit>>
    /\ UNCHANGED <<breakerVars, CB_LOCK, QUEUE_DEPTH, publisher, clock,
                   clientLocals, spins, draws, history, mwVars>>

\* cpu_spin(ms) runs to its end
WorkSpin(p) ==
    /\ pc[p] = "spin"
    /\ spins' = [spins EXCEPT ![p] = spins[p] + 1]
    /\ pc' = [pc EXCEPT ![p] = "draw"]
    /\ UNCHANGED <<breakerVars, CB_LOCK, QUEUE_DEPTH, publisher, WORK_ITEMS,
                   clock, result, clientLocals, fail_rate, queue_depth,
                   queue_limit, draws, history, mwVars>>

\* the failure draw and the request's end
WorkDraw(p) ==
    /\ pc[p] = "draw"
    /\ draws' = [draws EXCEPT ![p] = draws[p] + 1]
    /\ \E r \in Draws :
        IF DrawFails(r, fail_rate[p])
        THEN /\ Count("error")
             /\ WorkFinish(p, "SimulatedFailure")
        ELSE /\ Count("ok")
             /\ WorkFinish(p, "Accepted")
    /\ UNCHANGED <<breakerVars, CB_LOCK, QUEUE_DEPTH, publisher, clock,
                   clientLocals, spins, history, mwVars>>

\* ----------------------------------------------- metrics_middleware

\* healthz()
Healthz(p) ==
    /\ pc[p] = "idle"
    /\ result' = [result EXCEPT ![p] = "Healthy"]
    /\ UNCHANGED <<breakerVars, CB_LOCK, workVars, clock, pc, clientLocals,
                   history, mwVars>>

\* metrics_middleware up to the try: INFLIGHT.inc(), status_code = 500.  A
\* new request of the caller begins, so what was kept of its last one goes.
MwEnter(p) ==
    /\ mw[p] = "out"
    /\ pc[p] = "idle"
    /\ INFLIGHT' = INFLIGHT + 1
    /\ mw' = [mw EXCEPT ![p] = "in"]
    /\ result' = [result EXCEPT ![p] = "pending"]
    /\ remote' = [remote EXCEPT ![p] = 0]
    /\ recs' = [recs EXCEPT ![p] = 0]
    /\ acqs' = [acqs EXCEPT ![p] = 0]
    /\ spins' = [spins EXCEPT ![p] = 0]
    /\ draws' = [draws EXCEPT ![p] = 0]
    /\ reclosed' = [reclosed EXCEPT ![p] = FALSE]
    /\ UNCHANGED <<breakerVars, CB_LOCK, QUEUE_DEPTH, WORK_ITEMS, publisher,
                   fail_rate, queue_depth, queue_limit, clock, pc, now,
                   outcome, streak, trips, opened, peak>>

\* await call_next(request): the request reaches the route's handler
MwCallNext(p) ==
    /\ mw[p] = "in"
    /\ result[p] = "pending"
    /\ \/ ClientStart(p)
       \/ WorkStart(p)
       \/ Healthz(p)

\* Whether the handler under call_next has ended, with a response or with an
\* HTTPException, which FastAPI turns into a response below the middleware.
HandlerDone(p) == pc[p] = "idle" /\ result[p] \notin {"pending", "none"}

\* Faulty variant: the gauge is decremented on the way out of a response the
\* handler returned, not of one made from an HTTPException.
MwExit_SkipsErrors(p) ==
    /\ mw[p] = "in"
    /\ HandlerDone(p)
    /\ INFLIGHT' = IF result[p] \in {"Success", "Accepted", "Healthy"}
                   THEN INFLIGHT - 1 ELSE INFLIGHT
    /\ mw' = [mw EXCEPT ![p] = "out"]
    /\ UNCHANGED <<breakerVars, CB_LOCK, workVars, clock, pc, result,
                   clientLocals, history>>

\* call_next has returned: return response, and the finally block with
\* INFLIGHT.dec()
MwExit(p) ==
    /\ mw[p] = "in"
    /\ HandlerDone(p)
    /\ INFLIGHT' = INFLIGHT - 1
    /\ mw' = [mw EXCEPT ![p] = "out"]
    /\ UNCHANGED <<breakerVars, CB_LOCK, workVars, clock, pc, result,
                   clientLocals, history>>

\* ------------------------------------------------------------- time

Tick ==
    /\ \E d \in TickSteps :
        /\ clock + d <= MaxTime
        /\ clock' = clock + d
    /\ UNCHANGED <<breakerVars, CB_LOCK, workVars, pc, now, outcome, result,
                   remote, recs, acqs, history, mwVars>>

\* --------------------------------------------------- specifications

ClientStep(p) ==
    \/ ClientStart(p)
    \/ GateAcquire(p)
    \/ GateCheck(p)
    \/ Response(p)
    \/ RecordAcquire(p)
    \/ RecordSuccess(p)
    \/ RecordTimeout(p)
    \/ RecordStatusError(p)
    \/ RecordTransport(p)

WorkStep(p) ==
    \/ WorkStart(p)
    \/ WorkDecide(p)
    \/ WorkSpin(p)
    \/ WorkDraw(p)

\* Concurrent callers of /client.
Next ==
    \/ \E p \in Callers : ClientStep(p)
    \/ Tick

Spec == Init /\ [][Next]_vars

\* Concurrent callers of /work.
WorkNext == \E p \in Callers : WorkStep(p)

WorkSpec == Init /\ [][WorkNext]_vars

\* One caller, one request after another, to either endpoint.
SeqNext ==
    \/ ClientStep(1)
    \/ WorkStep(1)
    \/ Tick

SeqSpec == Init /\ [][SeqNext]_vars

\* Concurrent callers of /client, the critical sections taken one assignment
\* at a time.
FineStep(p) ==
    \/ ClientStart(p)
    \/ GateAcquire(p)
    \/ GateRead(p)
    \/ GateReset(p)
    \/ Response(p)
    \/ RecordAcquire(p)
    \/ RecordSuccess(p)
    \/ FailCount(p)
    \/ FailOpen(p)
    \/ FailDeadline(p)

FineNext ==
    \/ \E p \in Callers : FineStep(p)
    \/ Tick

FineSpec == Init /\ [][FineNext]_vars

\* Concurrent requests to the three routes, each inside metrics_middleware,
\* all within one reading of the clock.
MwStep(p) ==
    \/ MwEnter(p)
    \/ MwCallNext(p)
    \/ GateAcquire(p)
    \/ GateCheck(p)
    \/ Response(p)
    \/ RecordAcquire(p)
    \/ RecordSuccess(p)
    \/ RecordTimeout(p)
    \/ RecordStatusError(p)
    \/ RecordTransport(p)
    \/ WorkDecide(p)
    \/ WorkSpin(p)
    \/ WorkDraw(p)
    \/ MwExit(p)

MwNext == \E p \in Callers : MwStep(p)

MwSpec == Init /\ [][MwNext]_vars

\* Concurrent callers of /client that keep calling while time passes: every
\* caller sends a valid request again once its last one has ended, a waiter
\* on the lock gets it in its turn, a critical section runs to its end, and
\* client.get returns or raises within its timeout.
Fairness ==
    /\ WF_vars(Tick)
    /\ \A p \in Callers :
        /\ WF_vars(ClientEnter(p, TRUE))
        /\ SF_vars(GateAcquire(p))
        /\ WF_vars(GateCheck(p))
        /\ WF_vars(Response(p))
        /\ SF_vars(RecordAcquire(p))
        /\ WF_vars(RecordSuccess(p) \/ RecordTimeout(p)
                       \/ RecordStatusError(p) \/ RecordTransport(p))

LiveSpec == Init /\ [][Next]_vars /\ Fairness

\* ----------------------------------------------------------- properties

Triple == <<CB_OPEN, CB_UNTIL, CB_FAIL_COUNT>>

Failures == {"Timeout", "RemoteError", "TransportError"}

\* Caller p leaves the critical section that records a failed call.
RecordsFailure(p) ==
    pc[p] = "rec_cs" /\ outcome[p] \in Failures /\ pc'[p] = "idle"

\* Caller p leaves the critical section that records a successful call.
RecordsSuccess(p) ==
    pc[p] = "rec_cs" /\ outcome[p] = "Success" /\ pc'[p] = "idle"

\* Caller p leaves the gate's critical section.
LeavesGate(p) == pc[p] = "gate_cs" /\ pc'[p] # "gate_cs"

\* C1: the breaker starts closed with no failures counted; a step that
\* records a failure on a count below 4 leaves CB_OPEN and CB_UNTIL as they
\* were, so after 4 failures in a row it is still closed; the step that
\* records the failure on a count of 4, the 5th in a row, sets CB_OPEN and
\* sets CB_UNTIL to the time of that step plus 10 seconds.
C1_FifthFailureOpens ==
    /\ Init => (~CB_OPEN /\ CB_FAIL_COUNT = 0)
    /\ [][\A p \in Callers :
            RecordsFailure(p) =>
                /\ CB_FAIL_COUNT < 4 =>
                       (CB_OPEN' = CB_OPEN /\ CB_UNTIL' = CB_UNTIL)
                /\ CB_FAIL_COUNT = 4 =>
                       (CB_OPEN' /\ CB_UNTIL' = clock + 10)]_vars

\* A caller has just recorded the 5th failure in a row, after time has passed.
C1_Witness ==
    \E p \in Callers :
        /\ result[p] \in Failures
        /\ trips = 1 /\ streak = 5 /\ clock > 0
        /\ CB_OPEN /\ CB_FAIL_COUNT = 5 /\ CB_UNTIL = clock + 10

\* C2: a call that goes through the gate while the breaker is open and its
\* sampled time is before CB_UNTIL ends as BreakerOpen, has issued no remote
\* call, and leaves CB_OPEN, CB_UNTIL and CB_FAIL_COUNT as they were.
C2_OpenGateRejects ==
    [][\A p \in Callers :
        (LeavesGate(p) /\ CB_OPEN /\ now[p] < CB_UNTIL) =>
            /\ pc'[p] = "idle"
            /\ result'[p] = "BreakerOpen"
            /\ remote'[p] = 0
            /\ Triple' = Triple]_vars

\* After five failures opened the breaker, a further call was rejected
\* within the cooldown without a remote call.
C2_Witness ==
    \E p \in Callers :
        /\ result[p] = "BreakerOpen" /\ remote[p] = 0 /\ pc[p] = "idle"
        /\ CB_OPEN /\ CB_FAIL_COUNT = 5 /\ streak = 5 /\ clock < CB_UNTIL

\* C3: a call that goes through the gate while the breaker is open and its
\* sampled time is at or past CB_UNTIL has CB_OPEN set to false and
\* CB_FAIL_COUNT to 0 by the gate and goes on to issue its remote call; when
\* that call fails, with no other request having written the breaker in
\* between, the count it leaves is 1 and the breaker stays closed.
C3_ExpiredGateCloses ==
    [][\A p \in Callers :
        /\ (LeavesGate(p) /\ CB_OPEN /\ now[p] >= CB_UNTIL) =>
               /\ ~CB_OPEN' /\ CB_FAIL_COUNT' = 0
               /\ pc'[p] = "await" /\ remote'[p] = 1
        /\ (RecordsFailure(p) /\ reclosed[p]) =>
               (CB_FAIL_COUNT' = 1 /\ ~CB_OPEN')]_vars

\* The call that closed the breaker has failed and left a count of 1.
C3_Witness ==
    \E p \in Callers :
        /\ reclosed[p] /\ pc[p] = "idle" /\ result[p] \in Failures
        /\ trips >= 1 /\ ~CB_OPEN /\ CB_FAIL_COUNT = 1

\* C4: a step that records a success while the breaker is closed leaves
\* CB_FAIL_COUNT at 0 and the breaker closed; and as long as no 5 failures
\* have been recorded in a row without a success between them, the breaker
\* has not opened.
C4_SuccessResets ==
    /\ [](streak < 5 => (~CB_OPEN /\ trips = 0))
    /\ [][\A p \in Callers :
            (RecordsSuccess(p) /\ ~CB_OPEN) =>
                (CB_FAIL_COUNT' = 0 /\ ~CB_OPEN')]_vars

\* One caller's failure was counted and another caller's success has since
\* taken the count back to 0, the breaker never having opened.
C4_Witness ==
    \E p, q \in Callers :
        /\ pc[p] = "idle" /\ result[p] = "Success"
        /\ pc[q] = "idle" /\ result[q] \in Failures /\ recs[q] = 1
        /\ CB_FAIL_COUNT = 0 /\ streak = 0 /\ trips = 0 /\ ~CB_OPEN

\* C5: in every state the three failure handlers would leave the breaker in
\* the same state; a step that records a failure of any kind adds exactly 1
\* to CB_FAIL_COUNT, and afterwards CB_OPEN is set iff it was set before or
\* the new count is at least 5.
C5_FailuresCountAlike ==
    /\ [](/\ TimeoutUpdate(Breaker, clock) = StatusErrorUpdate(Breaker, clock)
          /\ TimeoutUpdate(Breaker, clock) = TransportUpdate(Breaker, clock))
    /\ [][\A p \in Callers :
            RecordsFailure(p) =>
                /\ CB_FAIL_COUNT' = CB_FAIL_COUNT + 1
                /\ CB_OPEN' <=> (CB_OPEN \/ CB_FAIL_COUNT' >= 5)]_vars

\* Failures of different kinds have together opened the breaker.
C5_Witness ==
    \E p, q \in Callers :
        /\ result[p] = "RemoteError" /\ result[q] = "TransportError"
        /\ CB_OPEN /\ CB_FAIL_COUNT = 5 /\ streak = 5

\* The ranges the interface states for the two endpoints' parameters.
ClientInRange(ms, fr, timeout_ms) ==
    ms \in 1..5000 /\ fr \in 0..100 /\ timeout_ms \in 1..10000

WorkInRange(ms, fr) == ms \in 1..2000 /\ fr \in 0..100

\* What the handlers make of the requests with a parameter out of range:
\* the verdicts of /client's validation, the cases of /work's.
ClientOutOfRange ==
    {ClientParamsValid(ms, fr, timeout_ms) :
        <<ms, fr, timeout_ms>> \in
            {t \in ClientMs \X FailRates \X TimeoutMs :
                ~ClientInRange(t[1], t[2], t[3])}}

WorkOutOfRange ==
    {WorkCase(t[1], t[2], t[3], t[4], t[5]) :
        t \in {u \in WorkMs \X FailRates \X DepthArgs \X QueueLimits
                        \X SampledDepths : ~WorkInRange(u[1], u[2])}}

\* C6: a /client request with a parameter out of range ends as a validation
\* error with the lock neither taken nor changed, no remote call issued and
\* CB_OPEN, CB_UNTIL and CB_FAIL_COUNT unchanged; a /work request with a
\* parameter out of range ends as a validation error with the queue-depth
\* gauge and the outcome counters unchanged, no work simulated and no
\* failure drawn.
C6_ValidationFirst ==
    [][\A p \in Callers :
        /\ \A valid \in ClientOutOfRange :
            ClientEnter(p, valid) =>
                /\ pc'[p] = "idle" /\ result'[p] = "ValidationError"
                /\ acqs'[p] = 0 /\ CB_LOCK' = CB_LOCK
                /\ remote'[p] = 0
                /\ Triple' = Triple
        /\ \A c \in WorkOutOfRange :
            WorkEnter(p, c[1], c[2], c[3], c[4]) =>
                /\ pc'[p] = "idle" /\ result'[p] = "ValidationError"
                /\ QUEUE_DEPTH' = QUEUE_DEPTH
                /\ WORK_ITEMS' = WORK_ITEMS
                /\ spins'[p] = 0 /\ draws'[p] = 0]_vars

\* A request was refused as invalid with the breaker open and work counted.
C6_Witness ==
    \E p \in Callers :
        /\ pc[p] = "idle" /\ result[p] = "ValidationError"
        /\ acqs[p] = 0 /\ remote[p] = 0
        /\ CB_OPEN /\ CB_FAIL_COUNT = 5
        /\ QUEUE_DEPTH = 50 /\ WORK_ITEMS["ok"] = 1

\* C7: a validated /client request has issued no remote call before it
\* leaves the gate, exactly one from then on when the gate let it through,
\* whatever the call's outcome, and none when the gate rejected it.
C7_AtMostOneRemoteCall ==
    \A p \in Callers :
        /\ remote[p] \in {0, 1}
        /\ pc[p] \in {"gate", "gate_cs"} => remote[p] = 0
        /\ pc[p] \in {"await", "rec", "rec_cs"} => remote[p] = 1
        /\ (pc[p] = "idle" /\ result[p] \in Outcomes) => remote[p] = 1
        /\ (pc[p] = "idle" /\ result[p] = "BreakerOpen") => remote[p] = 0

\* One request timed out after its one call; another was rejected with none.
C7_Witness ==
    \E p, q \in Callers :
        /\ pc[p] = "idle" /\ result[p] = "Timeout" /\ remote[p] = 1
        /\ pc[q] = "idle" /\ result[q] = "BreakerOpen" /\ remote[q] = 0

\* C8: under any interleaving, a request records at most one outcome into
\* the breaker, and exactly one once its call has ended; every step that
\* changes CB_OPEN, CB_UNTIL or CB_FAIL_COUNT is taken by the holder of the
\* lock, either in the gate (the count going to 0) or in recording its one
\* outcome (the count going up by 1 or to 0), so a request that has recorded
\* its outcome changes the breaker no more.
C8_RecordedOnce ==
    /\ [](\A p \in Callers :
            /\ recs[p] \in {0, 1}
            /\ pc[p] # "idle" => recs[p] = 0
            /\ (pc[p] = "idle" /\ result[p] \in Outcomes) => recs[p] = 1)
    /\ [][Triple' # Triple =>
            \E p \in Callers :
                /\ CB_LOCK = p /\ recs[p] = 0
                /\ \/ /\ pc[p] = "gate_cs" /\ recs'[p] = 0
                      /\ CB_FAIL_COUNT' = 0
                   \/ /\ pc[p] = "rec_cs" /\ recs'[p] = 1 /\ pc'[p] = "idle"
                      /\ \/ CB_FAIL_COUNT' = CB_FAIL_COUNT + 1
                         \/ CB_FAIL_COUNT' = 0]_vars

\* Two concurrent requests have each recorded their timeout once.
C8_Witness ==
    \E p, q \in Callers :
        /\ p # q
        /\ result[p] = "Timeout" /\ recs[p] = 1 /\ pc[p] = "idle"
        /\ result[q] = "Timeout" /\ recs[q] = 1 /\ pc[q] = "idle"
        /\ CB_FAIL_COUNT = 2 /\ streak = 2

\* C9: while time passes and callers keep calling, an open breaker whose
\* deadline lies within the time modelled is closed again, unless failures
\* of calls already in flight move the deadline past the time modelled; and
\* a breaker that has closed can be opened again (the witness).
C9_OpenBreakerCloses ==
    (CB_OPEN /\ CB_UNTIL <= MaxTime) ~> (~CB_OPEN \/ CB_UNTIL > MaxTime)

\* The breaker has opened, closed and opened again.
C9_Witness == CB_OPEN /\ trips = 2 /\ CB_FAIL_COUNT = 5

\* C10: in every step that takes CB_OPEN from true to false, CB_FAIL_COUNT
\* is 0 afterwards.
C10_ClosingResetsCount ==
    [][(CB_OPEN /\ ~CB_OPEN') => CB_FAIL_COUNT' = 0]_vars

\* A call has just closed the breaker at the gate and is on its way.
C10_Witness ==
    \E p \in Callers :
        /\ reclosed[p] /\ pc[p] = "await"
        /\ ~CB_OPEN /\ CB_FAIL_COUNT = 0 /\ trips >= 1

\* Caller p leaves the gate's critical section having closed the breaker, its
\* sampled time at or past CB_UNTIL.
ClosesAtGate(p) ==
    /\ LeavesGate(p)
    /\ CB_OPEN /\ now[p] >= CB_UNTIL
    /\ ~CB_OPEN' /\ pc'[p] = "await"

\* C11, as stated: CB_FAIL_COUNT never decreases between two recordings of a
\* success, that is, every step that lowers it records a success.
C11_DecreasesOnlyOnSuccess ==
    [][CB_FAIL_COUNT' < CB_FAIL_COUNT =>
            \E p \in Callers : RecordsSuccess(p)]_vars

\* C11, amended: every step that lowers CB_FAIL_COUNT sets it to 0 and either
\* records a success or closes the breaker at the gate; every step that
\* raises it records a failure and raises it by exactly 1.  Between two
\* resets the count never decreases.
C11_DecreasesOnlyByReset ==
    [][/\ CB_FAIL_COUNT' < CB_FAIL_COUNT =>
            /\ CB_FAIL_COUNT' = 0
            /\ \E p \in Callers : RecordsSuccess(p) \/ ClosesAtGate(p)
       /\ CB_FAIL_COUNT' > CB_FAIL_COUNT =>
            /\ CB_FAIL_COUNT' = CB_FAIL_COUNT + 1
            /\ \E p \in Callers : RecordsFailure(p)]_vars

\* The count, once at the threshold, is at 2 again after the breaker closed,
\* both callers' last calls having failed.
C11_Witness ==
    /\ trips = 1 /\ streak = 5 /\ ~CB_OPEN /\ CB_FAIL_COUNT = 2
    /\ \A p \in Callers : pc[p] = "idle" /\ result[p] \in Failures

\* Caller p leaves a critical section in which the two gauges are set: the
\* gate entered with the breaker open, the recording of a success, or the
\* recording of a failure that takes the threshold branch.
WritesGauges(p) ==
    \/ LeavesGate(p) /\ CB_OPEN
    \/ RecordsSuccess(p)
    \/ RecordsFailure(p) /\ CB_FAIL_COUNT + 1 >= CB_FAIL_THRESHOLD

\* C12: after every critical section that sets the gauges, under any
\* interleaving of the callers, CB_STATE is 1 iff CB_OPEN is true, and while
\* CB_OPEN is true CB_OPEN_UNTIL equals CB_UNTIL.
C12_GaugesMatchBreaker ==
    [][\A p \in Callers :
        WritesGauges(p) =>
            /\ (CB_STATE' = 1) <=> CB_OPEN'
            /\ CB_OPEN' => CB_OPEN_UNTIL' = CB_UNTIL']_vars

\* A call that was in flight when the breaker opened has succeeded within the
\* cooldown: the breaker is open and both gauges read 0.
C12_Witness ==
    \E p \in Callers :
        /\ pc[p] = "idle" /\ result[p] = "Success"
        /\ CB_OPEN /\ clock < CB_UNTIL
        /\ CB_STATE = 0 /\ CB_OPEN_UNTIL = 0

\* C13: a /work request is shed iff its queue_depth is greater than its
\* queue_limit: the step that takes the decision ends the request as Shed
\* when the depth is above the limit and otherwise lets it go on to the
\* simulated work, so a request past the decision has a depth at or below
\* its limit; depth 50 with limit 50 is accepted, depth 51 with limit 50 is
\* shed.
C13_AdmissionRule ==
    /\ [](/\ ~Sheds(50, 50) /\ Sheds(51, 50)
          /\ \A p \in Callers :
                pc[p] \in {"spin", "draw"} => queue_depth[p] <= queue_limit[p])
    /\ [][\A p \in Callers :
            (pc[p] = "decide" /\ pc'[p] # "decide") =>
                IF queue_depth[p] > queue_limit[p]
                THEN pc'[p] = "idle" /\ result'[p] = "Shed"
                ELSE pc'[p] = "spin" /\ result'[p] = "none"]_vars

\* One request at depth 50 with limit 50 has been let through while another,
\* at depth 51, was shed.
C13_Witness ==
    \E p, q \in Callers :
        /\ pc[p] = "spin" /\ queue_depth[p] = 50 /\ queue_limit[p] = 50
        /\ pc[q] = "idle" /\ result[q] = "Shed"
        /\ publisher = q /\ QUEUE_DEPTH = 51 /\ WORK_ITEMS["shed"] = 1

\* C14: a /work request that passes validation has set QUEUE_DEPTH to its
\* queue_depth by the time it stands before the admission decision; neither
\* the decision nor any later step of the request writes the gauge; so the
\* gauge holds the request's depth while the request runs and when it ends,
\* shed or not, as long as no other request has published its own depth
\* since.
C14_PublishedBeforeDecision ==
    /\ [](\A p \in Callers :
            (pc[p] \in WorkPcs /\ publisher = p) =>
                QUEUE_DEPTH = queue_depth[p])
    /\ [][\A p \in Callers :
            /\ (pc[p] = "idle" /\ pc'[p] = "decide") =>
                    (QUEUE_DEPTH' = queue_depth'[p] /\ publisher' = p)
            /\ (pc[p] \in WorkPcs /\ pc'[p] # pc[p]) =>
                    QUEUE_DEPTH' = QUEUE_DEPTH
            /\ (pc[p] \in WorkPcs /\ pc'[p] = "idle" /\ publisher = p) =>
                    /\ result'[p] \in {"Shed", "SimulatedFailure", "Accepted"}
                    /\ QUEUE_DEPTH' = queue_depth[p]]_vars

\* A request whose sampled depth was 100 has been shed and the gauge holds
\* 100; the other caller's request was accepted.
C14_Witness ==
    \E p, q \in Callers :
        /\ pc[p] = "idle" /\ result[p] = "Accepted"
        /\ pc[q] = "idle" /\ result[q] = "Shed"
        /\ publisher = q /\ QUEUE_DEPTH = 100

\* C15: a caller holds the lock exactly while it is in one of its two
\* critical sections, so never while its remote call is outstanding; a call
\* the gate let through has taken the lock once when its remote call is out
\* and twice when it has recorded its outcome.  Hence two callers can both
\* have passed the gate of a closed breaker and both have their calls in
\* flight with the count one short of the threshold (the witness).
C15_TwoPhaseLocking ==
    \A p \in Callers :
        /\ CB_LOCK = p <=> pc[p] \in {"gate_cs", "rec_cs"}
        /\ pc[p] = "await" => CB_LOCK # p
        /\ pc[p] \in {"await", "rec"} => acqs[p] = 1
        /\ (pc[p] = "idle" /\ result[p] \in Outcomes) => acqs[p] = 2
        /\ (pc[p] = "idle" /\ result[p] = "BreakerOpen") => acqs[p] = 1

\* Both callers have their remote calls in flight, the lock is free, the
\* breaker is closed and 4 failures are counted.
C15_Witness ==
    \E p, q \in Callers :
        /\ p # q /\ pc[p] = "await" /\ pc[q] = "await"
        /\ CB_LOCK = 0 /\ ~CB_OPEN /\ CB_FAIL_COUNT = 4

\* CB_OPEN, CB_UNTIL and CB_FAIL_COUNT as a critical section leaves them: a
\* count at the threshold comes with CB_OPEN set, and CB_OPEN set comes with
\* a CB_UNTIL stamped at or after the moment CB_OPEN was set.
Whole ==
    /\ CB_FAIL_COUNT >= CB_FAIL_THRESHOLD => CB_OPEN
    /\ CB_OPEN => CB_UNTIL >= opened + CB_OPEN_SECONDS

\* C16: with every assignment of a critical section a step of its own, at
\* most one caller is inside a critical section and it is the holder of the
\* lock; every step that changes CB_OPEN, CB_UNTIL or CB_FAIL_COUNT is a
\* step of the lock's holder inside its section (the steps that read them
\* are the ones taken from inside a section); and whenever the lock is free
\* or its holder has only just entered, which is when the three are next
\* read, they are whole: no count at the threshold with CB_OPEN still false,
\* no CB_OPEN with the CB_UNTIL of an earlier opening.
C16_MutualExclusion ==
    /\ [](/\ \A p, q \in Callers : (InCS(p) /\ InCS(q)) => p = q
          /\ \A p \in Callers : CB_LOCK = p <=> InCS(p)
          /\ (CB_LOCK = 0 \/ \E p \in Callers : pc[p] \in {"gate_cs", "rec_cs"})
                => Whole)
    /\ [][Triple' # Triple =>
            \E p \in Callers :
                CB_LOCK = p /\ InCS(p) /\ pc'[p] # pc[p]]_vars

\* The breaker is being opened a second time: CB_OPEN is set, CB_UNTIL is
\* still that of the first opening, and the other caller waits for the lock
\* at the gate.
C16_Witness ==
    \E p, q \in Callers :
        /\ pc[q] = "rec_until" /\ CB_LOCK = q
        /\ pc[p] = "gate"
        /\ CB_OPEN /\ CB_UNTIL > 0 /\ CB_UNTIL < opened + CB_OPEN_SECONDS

\* The label of the outcome counter that goes with a /work result.
CounterOf(r) ==
    CASE r = "Shed" -> "shed"
      [] r = "SimulatedFailure" -> "error"
      [] r = "Accepted" -> "ok"
      [] OTHER -> "none"

\* C17: a /work request past validation can always take its next step, and
\* the step that ends it gives it one of the results Shed, SimulatedFailure
\* and Accepted and adds 1 to the counter of that result and to no other;
\* the counters change in no other step, so each request is counted once.
\* A request has simulated no work and drawn nothing up to and including the
\* decision, so a shed request has done neither; the draw is made once, after
\* cpu_spin has run once.
C17_ExactlyOneOutcome ==
    /\ [](\A p \in Callers :
            /\ pc[p] \in WorkPcs =>
                   ENABLED (WorkDecide(p) \/ WorkSpin(p) \/ WorkDraw(p))
            /\ pc[p] \in {"decide", "spin"} => (spins[p] = 0 /\ draws[p] = 0)
            /\ pc[p] = "draw" => (spins[p] = 1 /\ draws[p] = 0)
            /\ (pc[p] = "idle" /\ result[p] = "Shed") =>
                   (spins[p] = 0 /\ draws[p] = 0)
            /\ (pc[p] = "idle"
                    /\ result[p] \in {"SimulatedFailure", "Accepted"}) =>
                   (spins[p] = 1 /\ draws[p] = 1))
    /\ [][/\ \A p \in Callers :
              (pc[p] \in WorkPcs /\ pc'[p] = "idle") =>
                  /\ result'[p] \in {"Shed", "SimulatedFailure", "Accepted"}
                  /\ WORK_ITEMS' =
                        [WORK_ITEMS EXCEPT ![CounterOf(result'[p])] = @ + 1]
          /\ WORK_ITEMS' # WORK_ITEMS =>
                \E p \in Callers : pc[p] \in WorkPcs /\ pc'[p] = "idle"]_vars

\* One request was shed and another failed its draw after its work; each is
\* counted once.
C17_Witness ==
    \E p, q \in Callers :
        /\ pc[p] = "idle" /\ result[p] = "Shed"
        /\ spins[p] = 0 /\ draws[p] = 0
        /\ pc[q] = "idle" /\ result[q] = "SimulatedFailure"
        /\ spins[q] = 1 /\ draws[q] = 1
        /\ WORK_ITEMS = [shed |-> 1, error |-> 1, ok |-> 0]

\* C18: every step that takes CB_OPEN from true to false is the gate's
\* critical section of a call whose sampled time is at or past CB_UNTIL; a
\* step that records a success while the breaker is open sets CB_FAIL_COUNT
\* to 0 and leaves CB_OPEN true and CB_UNTIL as it was; and a call that
\* goes through the gate of an open breaker whose count is 0, with its
\* sampled time before CB_UNTIL, is rejected without a remote call.
C18_SuccessNeverCloses ==
    [][/\ (CB_OPEN /\ ~CB_OPEN') => \E p \in Callers : ClosesAtGate(p)
       /\ \A p \in Callers :
            /\ (RecordsSuccess(p) /\ CB_OPEN) =>
                   (CB_FAIL_COUNT' = 0 /\ CB_OPEN' /\ CB_UNTIL' = CB_UNTIL)
            /\ (LeavesGate(p) /\ CB_OPEN /\ CB_FAIL_COUNT = 0
                    /\ now[p] < CB_UNTIL) =>
                   /\ pc'[p] = "idle" /\ result'[p] = "BreakerOpen"
                   /\ remote'[p] = 0 /\ CB_OPEN']_vars

\* A call in flight when the breaker opened has succeeded, and a later call
\* (the one that last set the state gauge) was rejected within the cooldown:
\* the breaker is open with a count of 0.
C18_Witness ==
    \E p, q \in Callers :
        /\ pc[p] = "idle" /\ result[p] = "Success"
        /\ pc[q] = "idle" /\ result[q] = "BreakerOpen"
        /\ CB_OPEN /\ CB_FAIL_COUNT = 0 /\ CB_STATE = 1
        /\ clock < CB_UNTIL

\* C19: with at most N /client requests in progress at any one time so far
\* (peak), CB_FAIL_COUNT is at most CB_FAIL_THRESHOLD + N - 1 = 4 + N, so at
\* most 5 when the requests came one after another; and it is below the
\* threshold while the breaker is closed, so that once the breaker is open
\* only the calls then in flight add to it.
C19_CountBounded ==
    /\ peak = 0 => CB_FAIL_COUNT = 0
    /\ peak > 0 => CB_FAIL_COUNT <= CB_FAIL_THRESHOLD + peak - 1
    /\ ~CB_OPEN => CB_FAIL_COUNT < CB_FAIL_THRESHOLD

\* Two calls were in flight together: one took the count to 5 and opened the
\* breaker, the other has taken it to 6.
C19_Witness ==
    /\ peak = 2 /\ CB_OPEN /\ CB_FAIL_COUNT = 6
    /\ \A p \in Callers : pc[p] = "idle" /\ result[p] \in Failures

\* The requests inside metrics_middleware.
Inside == {p \in Callers : mw[p] = "in"}

\* C20: INFLIGHT equals the number of requests inside metrics_middleware, so
\* it is never negative and is 0 when none is; a handler runs only inside
\* the middleware; a request whose handler has ended, whatever its result,
\* can leave, and the step in which it leaves takes 1 from the gauge as the
\* step in which it entered added 1; no other step changes the gauge.
C20_InflightCountsRequests ==
    /\ [](/\ INFLIGHT = Cardinality(Inside)
          /\ INFLIGHT >= 0
          /\ Inside = {} => INFLIGHT = 0
          /\ \A p \in Callers :
                /\ pc[p] # "idle" => p \in Inside
                /\ (p \in Inside /\ HandlerDone(p)) => ENABLED MwExit(p))
    /\ [][/\ \A p \in Callers :
              /\ (mw[p] = "out" /\ mw'[p] = "in") =>
                     INFLIGHT' = INFLIGHT + 1
              /\ (mw[p] = "in" /\ mw'[p] = "out") =>
                     (HandlerDone(p) /\ INFLIGHT' = INFLIGHT - 1)
          /\ INFLIGHT' # INFLIGHT => mw' # mw]_vars

\* A request rejected by the open breaker and a shed request have both left
\* the middleware and the gauge is back at 0.
C20_Witness ==
    \E p, q \in Callers :
        /\ result[p] = "BreakerOpen" /\ result[q] = "Shed"
        /\ Inside = {} /\ INFLIGHT = 0

====
